---- MODULE Spec2Model ----
(***************************************************************************)
(* Model of main.py: the event store (events / events.json), the calendar  *)
(* credential cache (token.pickle), schedule_event, delete_event,          *)
(* get_events and education_chat.                                          *)
(*                                                                         *)
(* Text is modelled as a sequence of tokens.  Text the program inspects    *)
(* character by character (names, dates, times, chat messages) is a        *)
(* sequence of one-character strings; a literal fragment of an f-string is *)
(* a single token.                                                         *)
(***************************************************************************)
EXTENDS Integers, Sequences, FiniteSets, TLC

VARIABLES events, file, token, clock, last

vars == <<events, file, token, clock, last>>

\* ------------------------------------------------------------------ bounds
MaxEvents == 2
MaxTick == 1
TicksPerMinute == 2

\* ------------------------------------------------------------- text helpers
Digits == <<"0", "1", "2", "3", "4", "5", "6", "7", "8", "9">>

IsDigit(c) == \E i \in 1..10 : Digits[i] = c

DigitVal(c) == (CHOOSE i \in 1..10 : Digits[i] = c) - 1

AllDigits(s) == \A i \in 1..Len(s) : IsDigit(s[i])

RECURSIVE NumVal(_)
NumVal(s) ==
    IF s = <<>> THEN 0
    ELSE NumVal(SubSeq(s, 1, Len(s) - 1)) * 10 + DigitVal(s[Len(s)])

\* str.isspace for the characters of the model's alphabet
IsSpace(c) == c \in {" ", "\t", "\n"}

RECURSIVE LStrip(_)
LStrip(s) ==
    IF s # <<>> /\ IsSpace(Head(s)) THEN LStrip(Tail(s)) ELSE s

RECURSIVE RStrip(_)
RStrip(s) ==
    IF s # <<>> /\ IsSpace(s[Len(s)]) THEN RStrip(SubSeq(s, 1, Len(s) - 1)) ELSE s

\* a name check that tests the name as given (if not event_name)
StripNone(s) == s

\* str.strip()
Strip(s) == RStrip(LStrip(s))

Upper == <<"A", "E", "G", "N", "S", "T", "V">>
Lower == <<"a", "e", "g", "n", "s", "t", "v">>

LowerChar(c) ==
    IF \E i \in 1..Len(Upper) : Upper[i] = c
    THEN Lower[CHOOSE i \in 1..Len(Upper) : Upper[i] = c]
    ELSE c

\* a router that matches the message as typed
ToLowerNone(s) == s

\* str.lower()
ToLower(s) == [i \in 1..Len(s) |-> LowerChar(s[i])]

\* needle in haystack
Contains(hay, needle) ==
    \E i \in 0..(Len(hay) - Len(needle)) :
        SubSeq(hay, i + 1, i + Len(needle)) = needle

RECURSIVE Join(_, _)
Join(lines, sep) ==
    IF lines = <<>> THEN <<>>
    ELSE IF Len(lines) = 1 THEN lines[1]
    ELSE lines[1] \o sep \o Join(Tail(lines), sep)

\* ------------------------------------------------------- datetime handling
\* A datetime is <<year, month, day, hour, minute, tick>>; tick is the part
\* of the instant below the minute (seconds and microseconds), in units of
\* 1/TicksPerMinute minute.
IsLeap(y) == (y % 4 = 0 /\ y % 100 # 0) \/ y % 400 = 0

DaysInMonth(y, m) ==
    IF m = 2 THEN (IF IsLeap(y) THEN 29 ELSE 28)
    ELSE IF m \in {4, 6, 9, 11} THEN 30 ELSE 31

\* the regular expressions _strptime builds for %Y %m %d %H %M
MatchY(s) == Len(s) = 4 /\ AllDigits(s)
Matchm(s) == Len(s) \in 1..2 /\ AllDigits(s) /\ NumVal(s) \in 1..12
Matchd(s) ==
    \/ Len(s) \in 1..2 /\ AllDigits(s) /\ NumVal(s) \in 1..31
    \/ Len(s) = 2 /\ s[1] = " " /\ IsDigit(s[2]) /\ s[2] # "0"
MatchH(s) == Len(s) \in 1..2 /\ AllDigits(s) /\ NumVal(s) \in 0..23
MatchM(s) == Len(s) \in 1..2 /\ AllDigits(s) /\ NumVal(s) \in 0..59
MatchWs(s) == Len(s) >= 1 /\ \A i \in 1..Len(s) : IsSpace(s[i])

\* the ways text splits as %Y-%m-%d\s+%H:%M, as the field lengths
\* <<month, day, hour, minute>>; the whitespace takes the rest
WsLen(text, l) == Len(text) - (7 + l[1] + l[2] + l[3] + l[4])

Splits(text) ==
    IF ~(Len(text) >= 5 /\ MatchY(SubSeq(text, 1, 4)) /\ text[5] = "-") THEN {}
    ELSE
    { l \in (1..2) \X (1..2) \X (1..2) \X (1..2) :
        LET n == Len(text)
            a == 6 + l[1]
            b == a + l[2]
            c == b + WsLen(text, l)
            d == c + l[3]
        IN  /\ WsLen(text, l) >= 1
            /\ Matchm(SubSeq(text, 6, a - 1))
            /\ text[a] = "-"
            /\ Matchd(SubSeq(text, a + 1, b))
            /\ MatchWs(SubSeq(text, b + 1, c))
            /\ MatchH(SubSeq(text, c + 1, d))
            /\ text[d + 1] = ":"
            /\ MatchM(SubSeq(text, d + 2, n)) }

\* the datetime of a text that splits as l; datetime() rejects the year 0
\* and a day the month does not have
FieldsToDatetime(text, l) ==
    LET a == 6 + l[1]
        b == a + l[2]
        c == b + WsLen(text, l)
        d == c + l[3]
        y == NumVal(SubSeq(text, 1, 4))
        m == NumVal(SubSeq(text, 6, a - 1))
        dd == NumVal(LStrip(SubSeq(text, a + 1, b)))
        H == NumVal(SubSeq(text, c + 1, d))
        M == NumVal(SubSeq(text, d + 2, Len(text)))
    IN  IF y < 1
        THEN [ok |-> FALSE, dt |-> <<>>, err |-> "year 0 is out of range"]
        ELSE IF dd > DaysInMonth(y, m)
        THEN [ok |-> FALSE, dt |-> <<>>, err |-> "day is out of range for month"]
        ELSE [ok |-> TRUE, dt |-> <<y, m, dd, H, M, 0>>, err |-> ""]

\* datetime.strptime(text, '%Y-%m-%d %H:%M'):
\* [ok |-> TRUE, dt |-> datetime] or [ok |-> FALSE, err |-> the ValueError]
\* (a text with a well-formed prefix and data left over is reported by
\* Python as "unconverted data remains"; here it counts as no match)
strptime(text) ==
    IF Splits(text) = {}
    THEN [ok |-> FALSE, dt |-> <<>>, err |-> "time data does not match format"]
    ELSE FieldsToDatetime(text, CHOOSE l \in Splits(text) : TRUE)

RECURSIVE Decimal(_)
Decimal(n) ==
    IF n < 10 THEN <<Digits[n + 1]>>
    ELSE Decimal(n \div 10) \o <<Digits[(n % 10) + 1]>>

Pad2(n) == IF n < 10 THEN <<"0">> \o Decimal(n) ELSE Decimal(n)

\* dt.strftime('%Y-%m-%d %H:%M')
strftime(dt) ==
    Decimal(dt[1]) \o <<"-">> \o Pad2(dt[2]) \o <<"-">> \o Pad2(dt[3])
        \o <<" ">> \o Pad2(dt[4]) \o <<":">> \o Pad2(dt[5])

\* a < b on datetimes
RECURSIVE LexLess(_, _)
LexLess(a, b) ==
    IF a = <<>> THEN FALSE
    ELSE IF Head(a) # Head(b) THEN Head(a) < Head(b)
    ELSE LexLess(Tail(a), Tail(b))

\* datetime.now(): the clock counts ticks since 2030-01-01 10:00:00
Now(c) == <<2030, 1, 1, 10, c \div TicksPerMinute, c % TicksPerMinute>>

\* ----------------------------------------------------------------- inputs
Names == {<<>>, <<" ">>, <<"a">>, <<"A">>}

DeleteNames == {<<>>, <<"a">>, <<"A">>, <<"a", " ">>}

Dates ==
    { <<"2", "0", "3", "0", "-", "0", "1", "-", "0", "1">>,
      <<"2", "0", "3", "0", "-", "1", "-", "2">>,
      <<"2", "0", "3", "0", "-", "0", "2", "-", "3", "0">>,
      <<"N", "o", "n", "e">> }

Times == { <<"1", "0", ":", "0", "0">> }

Messages ==
    { <<"G", "e", "t", " ", "e", "v", "e", "n", "t", "s">>,
      <<"x", " ", "G", "E", "T", " ", "E", "V", "E", "N", "T", "S", " ", "x">>,
      <<"g", "e", "t", " ", "e", "v", "e", "n", "t">>,
      <<"g", "e", "t", " ", " ", "e", "v", "e", "n", "t", "s">> }

\* strptime over the texts schedule_event can pass to it, computed once
strptimeOf == [text \in {d \o <<" ">> \o t : d \in Dates, t \in Times} |-> strptime(text)]

\* ------------------------------------------------------ credential cache
\* token.pickle: absent, or the pickled Credentials with its valid, expired
\* and refresh_token attributes (valid implies not expired)
NoCreds == [present |-> FALSE, valid |-> FALSE, expired |-> FALSE, refresh_token |-> FALSE]

Creds(v, e, r) == [present |-> TRUE, valid |-> v, expired |-> e, refresh_token |-> r]

TokenStates ==
    {NoCreds} \cup {Creds(TRUE, FALSE, r) : r \in BOOLEAN}
              \cup {Creds(FALSE, TRUE, r) : r \in BOOLEAN}

\* what the collaborators of one call do: the token refresh, the
\* interactive flow, the calendar insert, the write of events.json and the
\* text-generation endpoint
AuthEnvs ==
    { e \in [refresh_ok : BOOLEAN, flow_ok : BOOLEAN, flow_rt : BOOLEAN] :
        /\ e.refresh_ok = e.flow_ok
        /\ ~e.flow_ok => ~e.flow_rt }

\* an authentication that leaves the refreshed or new session out of the cache
authenticate_uncached(tok, env) ==
    LET creds == tok IN
    IF creds.present /\ creds.valid
    THEN [raised |-> FALSE, err |-> "", creds |-> creds, token |-> tok,
          refreshes |-> 0, flows |-> 0, tokenWrites |-> 0]
    ELSE IF creds.present /\ creds.expired /\ creds.refresh_token
    THEN [raised |-> ~env.refresh_ok, err |-> "", creds |-> Creds(TRUE, FALSE, TRUE),
          token |-> tok, refreshes |-> 1, flows |-> 0, tokenWrites |-> 0]
    ELSE [raised |-> ~env.flow_ok, err |-> "", creds |-> Creds(TRUE, FALSE, env.flow_rt),
          token |-> tok, refreshes |-> 0, flows |-> 1, tokenWrites |-> 0]

\* authenticate_google_calendar()
authenticate_google_calendar(tok, env) ==
    LET creds == tok IN
    IF creds.present /\ creds.valid
    THEN [raised |-> FALSE, err |-> "", creds |-> creds, token |-> tok,
          refreshes |-> 0, flows |-> 0, tokenWrites |-> 0]
    ELSE IF creds.present /\ creds.expired /\ creds.refresh_token
    THEN IF env.refresh_ok
         THEN LET c == Creds(TRUE, FALSE, TRUE) IN
              [raised |-> FALSE, err |-> "", creds |-> c, token |-> c,
               refreshes |-> 1, flows |-> 0, tokenWrites |-> 1]
         ELSE [raised |-> TRUE, err |-> "RefreshError", creds |-> creds, token |-> tok,
               refreshes |-> 1, flows |-> 0, tokenWrites |-> 0]
    ELSE IF env.flow_ok
         THEN LET c == Creds(TRUE, FALSE, env.flow_rt) IN
              [raised |-> FALSE, err |-> "", creds |-> c, token |-> c,
               refreshes |-> 0, flows |-> 1, tokenWrites |-> 1]
         ELSE [raised |-> TRUE, err |-> "authorization failed", creds |-> creds, token |-> tok,
               refreshes |-> 0, flows |-> 1, tokenWrites |-> 0]

Links == {<<"https://calendar/event/1">>}

\* service.events().insert(...).execute() with the session auth obtained
InsertEvent(auth, env) ==
    IF auth.raised
    THEN [raised |-> TRUE, err |-> auth.err, link |-> <<>>, auth |-> auth, inserts |-> 0]
    ELSE IF env.insert_ok
    THEN [raised |-> FALSE, err |-> "", link |-> env.link, auth |-> auth, inserts |-> 1]
    ELSE [raised |-> TRUE, err |-> "HttpError", link |-> <<>>, auth |-> auth, inserts |-> 1]

\* a calendar step that swallows a failed insert and returns no link
create_event_swallowing(event_name, event_datetime, tok, env) ==
    InsertEvent(authenticate_google_calendar(tok, env.auth), [env EXCEPT !.insert_ok = TRUE])

\* create_google_calendar_event(event_name, event_datetime)
create_google_calendar_event(event_name, event_datetime, tok, env) ==
    InsertEvent(authenticate_google_calendar(tok, env.auth), env)

\* ------------------------------------------------------------ event store
\* events.json: absent, a JSON array of records, or (after a write that
\* failed part-way) a truncated text that is no JSON document
NoFile == [kind |-> "absent", data |-> <<>>]

JsonFile(evs) == [kind |-> "json", data |-> evs]

CorruptFile == [kind |-> "corrupt", data |-> <<>>]

WriteOutcomes == {"ok", "open_fails", "dump_fails"}

\* load_events()
load_events(f) == IF f.kind = "json" THEN f.data ELSE <<>>

\* save_events(events): the file afterwards and whether the write raised
save_events(evs, f, outcome) ==
    IF outcome = "ok" THEN [raised |-> FALSE, file |-> JsonFile(evs)]
    ELSE IF outcome = "open_fails" THEN [raised |-> TRUE, file |-> f]
    ELSE [raised |-> TRUE, file |-> CorruptFile]

Event(name, when) == [event_name |-> name, event_time |-> when]

\* the outcome of an operation: its return value (or that an exception
\* left it), the state it leaves, and what it called on the way
Outcome(result, raised, evs, f, tok) ==
    [result |-> result, raised |-> raised, events |-> evs, file |-> f, token |-> tok,
     dt |-> <<>>, link |-> <<>>,
     creates |-> 0, inserts |-> 0, refreshes |-> 0, flows |-> 0, tokenWrites |-> 0,
     fileWrites |-> 0, saved |-> FALSE, apiCalls |-> 0]

ErrEmptyName == <<"Error: Event name cannot be empty.">>
ErrNotFuture == <<"Error: Event date and time must be in the future.">>

\* schedule_event from events.append on, called being the outcome so far
AppendAndSave(event_name, when, link, w, called) ==
    IF w.raised
    THEN [called EXCEPT !.result = <<"Error scheduling event: ", "OSError">>,
                        !.file = w.file, !.link = link, !.fileWrites = 1]
    ELSE [called EXCEPT !.result = <<"Event '">> \o event_name \o <<"' scheduled for ">>
                                      \o when \o <<". <a href='">> \o link
                                      \o <<"' target='_blank'>View in Google Calendar</a>">>,
                        !.file = w.file, !.link = link, !.fileWrites = 1, !.saved = TRUE]

\* schedule_event after the calendar call cal
AfterCalendar(event_name, event_datetime, cal, evs, f, env) ==
    IF cal.raised
    THEN [Outcome(<<"Error scheduling event: ", cal.err>>, FALSE, evs, f, cal.auth.token)
             EXCEPT !.dt = event_datetime, !.creates = 1, !.inserts = cal.inserts,
                    !.refreshes = cal.auth.refreshes, !.flows = cal.auth.flows,
                    !.tokenWrites = cal.auth.tokenWrites]
    ELSE AppendAndSave(event_name, strftime(event_datetime), cal.link,
             save_events(Append(evs, Event(event_name, strftime(event_datetime))), f, env.write),
             [Outcome(<<>>, FALSE, Append(evs, Event(event_name, strftime(event_datetime))),
                      f, cal.auth.token)
                 EXCEPT !.dt = event_datetime, !.creates = 1, !.inserts = cal.inserts,
                        !.refreshes = cal.auth.refreshes, !.flows = cal.auth.flows,
                        !.tokenWrites = cal.auth.tokenWrites])

\* schedule_event from the parsed date and time p on
AfterParse(event_name, p, evs, f, tok, now, env) ==
    IF ~p.ok
    THEN Outcome(<<"Error scheduling event: ", p.err>>, FALSE, evs, f, tok)
    ELSE IF LexLess(p.dt, now)
    THEN [Outcome(ErrNotFuture, FALSE, evs, f, tok) EXCEPT !.dt = p.dt]
    ELSE AfterCalendar(event_name, p.dt,
                       create_google_calendar_event(event_name, p.dt, tok, env), evs, f, env)

\* schedule_event(event_name, event_date, event_time)
schedule_event(event_name, event_date, event_time, evs, f, tok, now, env) ==
    IF Strip(event_name) = <<>>
    THEN Outcome(ErrEmptyName, FALSE, evs, f, tok)
    ELSE AfterParse(event_name, strptimeOf[event_date \o <<" ">> \o event_time],
                    evs, f, tok, now, env)

NoEvents == <<"No events scheduled.">>

\* a listing with the newest event first
get_events_newest_first(evs) ==
    IF evs = <<>> THEN NoEvents
    ELSE Join([i \in 1..Len(evs) |->
                  evs[Len(evs) + 1 - i].event_name \o <<" at ">>
                      \o evs[Len(evs) + 1 - i].event_time], <<"\n">>)

\* get_events()
get_events(evs) ==
    IF evs = <<>> THEN NoEvents
    ELSE Join([i \in 1..Len(evs) |->
                  evs[i].event_name \o <<" at ">> \o evs[i].event_time], <<"\n">>)

Keep(evs, event_name) == SelectSeq(evs, LAMBDA e : e.event_name # event_name)

\* delete_event after its write w of the kept events
Deleted(event_name, kept, w, tok) ==
    IF w.raised
    THEN [Outcome(<<>>, TRUE, kept, w.file, tok) EXCEPT !.fileWrites = 1]
    ELSE [Outcome(<<"Event '">> \o event_name \o <<"' deleted.">>, FALSE, kept, w.file, tok)
             EXCEPT !.fileWrites = 1, !.saved = TRUE]

\* delete_event(event_name)
delete_event(event_name, evs, f, tok, outcome) ==
    Deleted(event_name, Keep(evs, event_name),
            save_events(Keep(evs, event_name), f, outcome), tok)

GetEvents == <<"g", "e", "t", " ", "e", "v", "e", "n", "t", "s">>

ApiOutcomes == {"ok", "bad_status", "bad_body", "transport_error"}

\* education_chat(message, history)
education_chat(message, evs, f, tok, api) ==
    LET input_text == ToLower(message) IN
    IF Contains(input_text, GetEvents)
    THEN Outcome(get_events(evs), FALSE, evs, f, tok)
    ELSE
    LET text == IF api = "ok" THEN <<"generated_text">>
                ELSE IF api = "bad_status" THEN <<"Error: ", "response.text">>
                ELSE <<"Connection error: ", api>>
    IN [Outcome(text, FALSE, evs, f, tok) EXCEPT !.apiCalls = 1]

\* one environment for each way a call can go: the steps after a failing
\* step are never reached, so their outcome is fixed
ScheduleEnvs ==
    { e \in [auth : AuthEnvs, insert_ok : BOOLEAN, link : Links, write : WriteOutcomes,
              api : ApiOutcomes] :
        /\ e.api = "ok"
        /\ ~e.auth.flow_ok => ~e.insert_ok
        /\ ~e.insert_ok => e.write = "ok" }

\* ---------------------------------------------------------- state machine
\* Calls run one at a time, each to completion.  last is the call that has
\* returned and whose result the presentation layer has yet to show: its
\* arguments, the state it started from, what it returned and what it
\* called; op is "none" between calls.
Call(op, name, date, time, message, env, out) ==
    [op |-> op, name |-> name, date |-> date, time |-> time, message |-> message,
     env |-> env,
     events0 |-> events, file0 |-> file, token0 |-> token, now0 |-> Now(clock),
     out |-> out]

AllOk == CHOOSE e \in ScheduleEnvs : e.auth.flow_rt /\ e.insert_ok /\ e.write = "ok"

NoCall ==
    [op |-> "none", name |-> <<>>, date |-> <<>>, time |-> <<>>, message |-> <<>>,
     env |-> AllOk,
     events0 |-> <<>>, file0 |-> NoFile, token0 |-> NoCreds, now0 |-> Now(0),
     out |-> Outcome(<<>>, FALSE, <<>>, NoFile, NoCreds)]

Idle == last.op = "none"

\* events = load_events() at import, over what an earlier run left
Init ==
    /\ file \in {NoFile, JsonFile(<<Event(<<"a">>, strftime(<<2030, 1, 2, 10, 0, 0>>))>>)}
    /\ events = load_events(file)
    /\ token \in TokenStates
    /\ clock = 0
    /\ last = NoCall

\* the environments that make a difference to a call: all of them when the
\* call reaches the calendar, one otherwise
EnvsFor(name, date, time) ==
    IF schedule_event(name, date, time, events, file, token, Now(clock), AllOk).creates = 0
    THEN {AllOk} ELSE ScheduleEnvs

ScheduleEvent ==
    /\ Idle
    /\ Len(events) < MaxEvents
    /\ \E name \in Names, date \in Dates, time \in Times :
       \E env \in EnvsFor(name, date, time) :
       \E out \in {schedule_event(name, date, time, events, file, token, Now(clock), env)} :
          /\ events' = out.events
          /\ file' = out.file
          /\ token' = out.token
          /\ last' = Call("schedule_event", name, date, time, <<>>, env, out)
    /\ UNCHANGED clock

DeleteEvent ==
    /\ Idle
    /\ \E name \in DeleteNames, w \in WriteOutcomes :
       \E out \in {delete_event(name, events, file, token, w)} :
          /\ events' = out.events
          /\ file' = out.file
          /\ last' = Call("delete_event", name, <<>>, <<>>, <<>>, [AllOk EXCEPT !.write = w], out)
    /\ UNCHANGED <<token, clock>>

GetEventsCall ==
    /\ Idle
    /\ last' = Call("get_events", <<>>, <<>>, <<>>, <<>>, AllOk,
                    Outcome(get_events(events), FALSE, events, file, token))
    /\ UNCHANGED <<events, file, token, clock>>

\* the endpoint outcomes that make a difference to a chat call
ApisFor(message) ==
    IF education_chat(message, events, file, token, "ok").apiCalls = 0
    THEN {"ok"} ELSE ApiOutcomes

EducationChat ==
    /\ Idle
    /\ \E message \in Messages :
       \E api \in ApisFor(message) :
       \E out \in {education_chat(message, events, file, token, api)} :
          /\ events' = out.events
          /\ file' = out.file
          /\ last' = Call("education_chat", <<>>, <<>>, <<>>, message, [AllOk EXCEPT !.api = api], out)
    /\ UNCHANGED <<token, clock>>

\* the presentation layer shows the result (or the error that escaped)
Respond ==
    /\ ~Idle
    /\ last' = NoCall
    /\ UNCHANGED <<events, file, token, clock>>

\* time passes
Tick ==
    /\ Idle
    /\ clock < MaxTick
    /\ clock' = clock + 1
    /\ UNCHANGED <<events, file, token, last>>

\* the cached access token reaches its expiry
TokenExpires ==
    /\ Idle
    /\ token.present /\ token.valid
    /\ token' = Creds(FALSE, TRUE, token.refresh_token)
    /\ UNCHANGED <<events, file, clock, last>>

Next ==
    \/ ScheduleEvent
    \/ DeleteEvent
    \/ GetEventsCall
    \/ EducationChat
    \/ Respond
    \/ Tick
    \/ TokenExpires

Spec == Init /\ [][Next]_vars

\* ------------------------------------------------------------ properties
IsSchedule == last.op = "schedule_event"
IsDelete == last.op = "delete_event"
IsList == last.op = "get_events"
IsChat == last.op = "education_chat"

\* a name that is empty or whitespace only
Blank(name) == \A i \in 1..Len(name) : IsSpace(name[i])

\* the instant the arguments of the last schedule_event call denote
Parsed == strptimeOf[last.date \o <<" ">> \o last.time]

WellFormed == Parsed.ok
StrictlyFuture == WellFormed /\ LexLess(last.now0, Parsed.dt)
NotAfterNow == WellFormed /\ ~LexLess(last.now0, Parsed.dt)

\* the call got as far as the calendar
ReachedCalendar == IsSchedule /\ ~Blank(last.name) /\ WellFormed /\ ~LexLess(Parsed.dt, last.now0)

\* s is 'YYYY-MM-DD HH:MM' and denotes dt
IsStamp(s, dt) ==
    /\ Len(s) = 16
    /\ s[5] = "-" /\ s[8] = "-" /\ s[11] = " " /\ s[14] = ":"
    /\ AllDigits(SubSeq(s, 1, 4)) /\ NumVal(SubSeq(s, 1, 4)) = dt[1]
    /\ AllDigits(SubSeq(s, 6, 7)) /\ NumVal(SubSeq(s, 6, 7)) = dt[2]
    /\ AllDigits(SubSeq(s, 9, 10)) /\ NumVal(SubSeq(s, 9, 10)) = dt[3]
    /\ AllDigits(SubSeq(s, 12, 13)) /\ NumVal(SubSeq(s, 12, 13)) = dt[4]
    /\ AllDigits(SubSeq(s, 15, 16)) /\ NumVal(SubSeq(s, 15, 16)) = dt[5]

\* the file holds exactly the sequence evs (an absent file holds <<>>)
Holds(f, evs) ==
    \/ f.kind = "json" /\ f.data = evs
    \/ f.kind = "absent" /\ evs = <<>>

ScheduleSucceeded == IsSchedule /\ last.out.result # <<>> /\ last.out.result[1] = "Event '"
DeleteConfirmed == IsDelete /\ last.out.result = <<"Event '">> \o last.name \o <<"' deleted.">>
Unchanged == events = last.events0 /\ file = last.file0

\* evs without the records named name, in their order
RECURSIVE Without(_, _)
Without(evs, name) ==
    IF evs = <<>> THEN <<>>
    ELSE IF Head(evs).event_name = name THEN Without(Tail(evs), name)
    ELSE <<Head(evs)>> \o Without(Tail(evs), name)

Matches(evs, name) == Cardinality({i \in 1..Len(evs) : evs[i].event_name = name})

\* the listing of evs: one line "<name> at <scheduled_at>" per event, in order
RECURSIVE Listing(_)
Listing(evs) ==
    IF evs = <<>> THEN <<"No events scheduled.">>
    ELSE LET e == evs[Len(evs)]
             line == e.event_name \o <<" at ">> \o e.event_time
         IN  IF Len(evs) = 1 THEN line
             ELSE Listing(SubSeq(evs, 1, Len(evs) - 1)) \o <<"\n">> \o line

\* message contains "get events" in some letter case
HasGetEvents(message) ==
    \E i \in 0..(Len(message) - Len(GetEvents)) :
        \A j \in 1..Len(GetEvents) :
            \/ message[i + j] = GetEvents[j]
            \/ \E k \in 1..Len(Upper) : Lower[k] = GetEvents[j] /\ Upper[k] = message[i + j]

\* C1: whenever no operation is in progress the in-memory events equal the
\* sequence stored in events.json (absent counting as empty), also after a
\* call that returned an error; and schedule_event and delete_event return
\* their success message only once the file has been rewritten in full.
C1_MemoryMatchesFile ==
    /\ Holds(file, events)
    /\ (ScheduleSucceeded \/ DeleteConfirmed) => last.out.saved /\ file = JsonFile(events)

\* C2: for a non-blank name and a well-formed instant strictly in the future,
\* when the calendar call and the file write succeed, schedule_event appends
\* exactly one record {name, 'YYYY-MM-DD HH:MM'} at the end: the persisted
\* sequence grows by exactly 1, the earlier records keep content and order,
\* and the success string contains the name, the instant and the link.
C2_ScheduleAppendsOne ==
    (IsSchedule /\ ~Blank(last.name) /\ StrictlyFuture
        /\ last.env.insert_ok /\ last.env.write = "ok")
    => /\ Len(events) = Len(last.events0) + 1
       /\ SubSeq(events, 1, Len(last.events0)) = last.events0
       /\ events[Len(events)].event_name = last.name
       /\ IsStamp(events[Len(events)].event_time, Parsed.dt)
       /\ file = JsonFile(events)
       /\ last.file0.kind # "corrupt"
       /\ Len(file.data) = Len(load_events(last.file0)) + 1
       /\ SubSeq(file.data, 1, Len(file.data) - 1) = load_events(last.file0)
       /\ ~last.out.raised
       /\ Contains(last.out.result, last.name)
       /\ Contains(last.out.result, events[Len(events)].event_time)
       /\ Contains(last.out.result, last.env.link)

\* What holds of the successful schedule_event call whatever went before:
\* the in-memory sequence gains the record at its end and the file is
\* rewritten to hold the in-memory sequence.
ScheduleAppendsToMemory ==
    (IsSchedule /\ ~Blank(last.name) /\ StrictlyFuture
        /\ last.env.insert_ok /\ last.env.write = "ok")
    => /\ Len(events) = Len(last.events0) + 1
       /\ SubSeq(events, 1, Len(last.events0)) = last.events0
       /\ events[Len(events)].event_name = last.name
       /\ IsStamp(events[Len(events)].event_time, Parsed.dt)
       /\ file = JsonFile(events)
       /\ Holds(last.file0, last.events0) => Len(file.data) = Len(load_events(last.file0)) + 1
       /\ ~last.out.raised
       /\ Contains(last.out.result, last.name)
       /\ Contains(last.out.result, events[Len(events)].event_time)
       /\ Contains(last.out.result, last.env.link)

\* C3: for an instant that is not strictly after the current instant (past
\* or equal to it), schedule_event returns the validation error, makes no
\* calendar call and leaves memory and file unchanged; so every record
\* schedule_event appends had an instant strictly in the future.
C3_NotAfterNowRejected ==
    /\ (IsSchedule /\ ~Blank(last.name) /\ NotAfterNow)
       => /\ last.out.result = ErrNotFuture
          /\ last.out.creates = 0 /\ last.out.inserts = 0 /\ last.out.fileWrites = 0
          /\ Unchanged
    /\ (IsSchedule /\ events # last.events0) => StrictlyFuture

\* What the code does: an instant strictly before the current one is rejected.
PastRejected ==
    (IsSchedule /\ ~Blank(last.name) /\ WellFormed /\ LexLess(Parsed.dt, last.now0))
    => /\ last.out.result = ErrNotFuture
       /\ last.out.creates = 0 /\ last.out.inserts = 0 /\ last.out.fileWrites = 0
       /\ Unchanged

\* C4: for a name that is empty or whitespace only, whatever the date and
\* time, schedule_event returns exactly "Error: Event name cannot be empty.",
\* makes no calendar call and no file write, and leaves memory and file
\* unchanged.
C4_BlankNameRejected ==
    (IsSchedule /\ Blank(last.name))
    => /\ last.out.result = <<"Error: Event name cannot be empty.">>
       /\ ~last.out.raised
       /\ last.out.creates = 0 /\ last.out.inserts = 0
       /\ last.out.refreshes = 0 /\ last.out.flows = 0
       /\ last.out.fileWrites = 0
       /\ Unchanged
       /\ Len(events) = Len(last.events0)

C4_Witness ==
    /\ IsSchedule /\ last.name = <<" ">> /\ StrictlyFuture
    /\ last.events0 # <<>>
    /\ last.out.result = ErrEmptyName

\* C5: when the calendar step of schedule_event fails (authentication or
\* insertion raises) the event is not persisted: an error string is
\* returned, memory and file are as before the call, and there is exactly
\* one create attempt (no retry).
C5_CalendarFailureNotPersisted ==
    (ReachedCalendar /\ ~last.env.insert_ok)
    => /\ ~last.out.raised
       /\ Len(last.out.result) = 2 /\ last.out.result[1] = "Error scheduling event: "
       /\ Unchanged
       /\ last.out.fileWrites = 0
       /\ last.out.creates = 1
       /\ last.out.inserts <= 1
       /\ last.out.refreshes + last.out.flows <= 1

C5_Witness ==
    /\ ReachedCalendar /\ ~last.env.insert_ok
    /\ last.out.inserts = 1
    /\ last.events0 # <<>>
    /\ last.out.result = <<"Error scheduling event: ", "HttpError">>

\* C6: delete_event(name) leaves memory and file equal to the original
\* sequence without the records whose event_name equals name exactly, the
\* others in their order: N matches shorten it by N, no match leaves it
\* unchanged, and "Event '<name>' deleted." is returned in both cases.
C6_DeleteRemovesAllMatches ==
    IsDelete
    => /\ events = Without(last.events0, last.name)
       /\ Len(events) = Len(last.events0) - Matches(last.events0, last.name)
       /\ file = JsonFile(events)
       /\ ~last.out.raised
       /\ last.out.result = <<"Event '">> \o last.name \o <<"' deleted.">>

\* What holds of delete_event when its write of events.json succeeds.
DeleteWhenWritten ==
    (IsDelete /\ last.env.write = "ok")
    => /\ events = Without(last.events0, last.name)
       /\ Len(events) = Len(last.events0) - Matches(last.events0, last.name)
       /\ file = JsonFile(events)
       /\ ~last.out.raised
       /\ last.out.result = <<"Event '">> \o last.name \o <<"' deleted.">>

\* C7: every public operation returns a descriptive string for every input
\* and every failure of its collaborators; no exception leaves it.
C7_NoUncaughtException ==
    (IsSchedule \/ IsDelete \/ IsList \/ IsChat)
    => ~last.out.raised /\ last.out.result # <<>>

\* C8: get_events returns exactly "No events scheduled." for the empty
\* sequence and otherwise one line "<name> at <scheduled_at>" per event,
\* joined by newlines, in insertion order of the surviving events (an event
\* scheduled later is listed after them); it changes neither memory nor file.
C8_ListingInInsertionOrder ==
    /\ IsList
       => /\ last.out.result = Listing(last.events0)
          /\ last.events0 = <<>> => last.out.result = <<"No events scheduled.">>
          /\ ~last.out.raised
          /\ Unchanged
    /\ ScheduleSucceeded
       => LET line == last.name \o <<" at ">> \o events[Len(events)].event_time IN
          get_events(events) =
              IF last.events0 = <<>> THEN line
              ELSE Listing(last.events0) \o <<"\n">> \o line
    /\ IsDelete => get_events(events) = Listing(Without(last.events0, last.name))

C8_Witness ==
    /\ IsList
    /\ Len(last.events0) = 2
    /\ last.events0[1].event_name # last.events0[2].event_name
    /\ last.out.result = last.events0[1].event_name \o <<" at ">> \o last.events0[1].event_time
                        \o <<"\n">>
                        \o last.events0[2].event_name \o <<" at ">> \o last.events0[2].event_time

C10_ChatRouting ==
    IsChat
    => /\ HasGetEvents(last.message)
          => /\ last.out.result = Listing(last.events0)
             /\ last.out.result = get_events(events)
             /\ last.out.apiCalls = 0
       /\ ~HasGetEvents(last.message)
          => /\ last.out.apiCalls = 1
             /\ Unchanged
       /\ ~last.out.raised

C10_Witness ==
    /\ IsChat
    /\ last.message = <<"x", " ", "G", "E", "T", " ", "E", "V", "E", "N", "T", "S", " ", "x">>
    /\ last.events0 # <<>>
    /\ last.out.apiCalls = 0
    /\ last.out.result = Listing(events)

====
